---- MODULE Spec2Model ----
(***************************************************************************)
(* Model of streamlit_app.py: one Streamlit script run after another over  *)
(* the SQLite file electricity_theft.db.  A script run connects, creates   *)
(* and seeds the tables, handles the button that triggered it (simulate),  *)
(* loads the joined readings and the alerts, applies the sidebar filters   *)
(* and computes the metrics and the chart frames.                          *)
(*                                                                         *)
(* Python's sqlite3 opens a transaction implicitly before an INSERT and    *)
(* keeps the inserted rows pending on the connection until conn.commit();  *)
(* a connection that is dropped with rows pending rolls them back.  The    *)
(* committed tables are what any other reader of the file sees; the        *)
(* connection itself sees the committed rows followed by its pending ones. *)
(***************************************************************************)
EXTENDS Integers, Sequences, FiniteSets, TLC

VARIABLES
    CONSUMER,     \* committed rows of table CONSUMER
    METER,        \* committed rows of table METER
    CONSUMPTION,  \* committed rows of table CONSUMPTION, in AUTOINCREMENT order
    ALERT,        \* committed rows of table ALERT, in AUTOINCREMENT order
    txn,          \* rows inserted on conn and not yet committed
    pc,           \* position of the current script run
    loop,         \* the button handler's loop: n calls wanted, i calls returned
    local,        \* simulate()'s locals (meter, units, ts) between its statements
    clock,        \* wall clock, as the index of the instant datetime.now() reads
    base_df,      \* frame loaded by the join query
    alert_df,     \* frame loaded by SELECT * FROM ALERT
    view          \* what the rest of the pass computed (filters, metrics, charts)

vars == <<CONSUMER, METER, CONSUMPTION, ALERT, txn, pc, loop, local, clock,
          base_df, alert_df, view>>

-----------------------------------------------------------------------------
(* Program constants *)

THRESHOLD == 250
UnitsHi == 330

(* Bounds of the model *)

MaxReadings == 2   \* rows the model lets CONSUMPTION grow to
MaxClock == 1      \* last instant the clock is advanced to
BatchBound == 2    \* calls of the batch button's loop (range(10), scaled down)
EpochHour == 9     \* hour of day of instant 0
TickHours == 25    \* hours between two instants of the clock

HoursPerDay == 24

-----------------------------------------------------------------------------
(* Text and time conversions *)

DigitChars == <<"0", "1", "2", "3", "4", "5", "6", "7", "8", "9">>

\* str(n) of a non-negative int: its decimal digits, as a sequence of characters
RECURSIVE astype_str(_)
astype_str(n) ==
    IF n < 10 THEN <<DigitChars[n + 1]>>
    ELSE astype_str(n \div 10) \o <<DigitChars[(n % 10) + 1]>>

All == <<"A", "l", "l">>

CharCode(c) == CHOOSE i \in 1..10 : DigitChars[i] = c

\* Python's str < str on digit strings: lexicographic, a proper prefix first
RECURSIVE StrLess(_, _)
StrLess(a, b) ==
    IF a = <<>> THEN b # <<>>
    ELSE IF b = <<>> THEN FALSE
    ELSE IF Head(a) # Head(b) THEN CharCode(Head(a)) < CharCode(Head(b))
    ELSE StrLess(Tail(a), Tail(b))

\* datetime.now().strftime("%Y-%m-%d %H:%M:%S") at instant k of the clock: the
\* text carries the calendar date and the time of day to the whole second
strftime(k) ==
    LET h == EpochHour + k * TickHours
    IN  [date |-> h \div HoursPerDay, hour |-> h % HoursPerDay]

\* pd.to_datetime(text) followed by .dt.date / .dt.hour
dt_date(ts) == ts.date
dt_hour(ts) == ts.hour

TsLess(a, b) == a.date < b.date \/ (a.date = b.date /\ a.hour < b.hour)

-----------------------------------------------------------------------------
(* Seed rows *)

SeedConsumers ==
    { [consumer_id |-> 1, name |-> "Ravi",    area |-> "Chennai"],
      [consumer_id |-> 2, name |-> "Anitha",  area |-> "Madurai"],
      [consumer_id |-> 3, name |-> "Karthik", area |-> "Coimbatore"] }

SeedMeters ==
    { [meter_id |-> 101, consumer_id |-> 1, meter_type |-> "Smart"],
      [meter_id |-> 102, consumer_id |-> 2, meter_type |-> "Smart"],
      [meter_id |-> 103, consumer_id |-> 3, meter_type |-> "Smart"] }

\* random.choice([101,102,103])
MeterChoices == {101, 102, 103}

\* random.randint(40,330), sampled at the threshold and at its upper end
UnitsChoices == {THRESHOLD, UnitsHi}

NoTxn == [CONSUMPTION |-> <<>>, ALERT |-> <<>>]
NoLoop == [n |-> 0, i |-> 0]
NoLocal == [set |-> FALSE]
NoView == [computed |-> FALSE]

-----------------------------------------------------------------------------
(* What a reader sees *)

\* rows of a table as the script's own connection sees them
ConnConsumption == CONSUMPTION \o txn.CONSUMPTION
ConnAlert == ALERT \o txn.ALERT

-----------------------------------------------------------------------------
(* Start of a script run: connect, CREATE TABLE IF NOT EXISTS, seed *)

Startup ==
    /\ pc = "start"
    /\ IF CONSUMER = {}
       THEN IF \E m \in METER : m.meter_id \in {s.meter_id : s \in SeedMeters}
            THEN \* INSERT INTO METER hits the PRIMARY KEY: IntegrityError
                 /\ pc' = "crashed"
                 /\ UNCHANGED <<CONSUMER, METER>>
            ELSE /\ CONSUMER' = SeedConsumers
                 /\ METER' = METER \cup SeedMeters
                 /\ pc' = "controls"
       ELSE /\ pc' = "controls"
            /\ UNCHANGED <<CONSUMER, METER>>
    /\ UNCHANGED <<CONSUMPTION, ALERT, txn, loop, local, clock, base_df,
                   alert_df, view>>

-----------------------------------------------------------------------------
(* Controls *)

Click(n) ==
    /\ pc = "controls"
    /\ Len(CONSUMPTION) + n <= MaxReadings
    /\ loop' = [n |-> n, i |-> 0]
    /\ pc' = "insert"
    /\ UNCHANGED <<CONSUMER, METER, CONSUMPTION, ALERT, txn, local, clock,
                   base_df, alert_df, view>>

ClickSimulateBatch == Click(BatchBound)

ClickAddOne == Click(1)

\* a run triggered by a sidebar widget: neither button is pressed
NoClick ==
    /\ pc = "controls"
    /\ pc' = "load"
    /\ UNCHANGED <<CONSUMER, METER, CONSUMPTION, ALERT, txn, loop, local, clock,
                   base_df, alert_df, view>>

\* time passes; only simulate() reads the clock, so it is advanced there
Tick ==
    /\ pc = "insert"
    /\ clock < MaxClock
    /\ clock' = clock + 1
    /\ UNCHANGED <<CONSUMER, METER, CONSUMPTION, ALERT, txn, pc, loop, local,
                   base_df, alert_df, view>>

-----------------------------------------------------------------------------
(* simulate() *)

\* line 92 with >= in place of >
IsTheftGE(units) == units >= THRESHOLD

IsTheft(units) == units > THRESHOLD

ReadingRow(meter, units, ts) ==
    [meter_id |-> meter, units |-> units, reading_date |-> ts]

AlertRow(meter, units, ts) ==
    [meter_id |-> meter, units |-> units, alert_type |-> "POSSIBLE THEFT",
     alert_date |-> ts]

\* the pending rows after cur.execute("INSERT INTO CONSUMPTION ...")
InsertPending(t, table, row) == [t EXCEPT ![table] = Append(@, row)]

\* lines 83-90: draw meter and units, format the time, insert the reading.
\* ok = FALSE: the execute raises (locked or unwritable file); nothing is pending
SimInsertReading(meter, units, ok) ==
    /\ pc = "insert"
    /\ LET ts == strftime(clock)
       IN  IF ok
           THEN /\ local' = [set |-> TRUE, meter |-> meter, units |-> units,
                             ts |-> ts]
                /\ txn' = InsertPending(txn, "CONSUMPTION",
                                        ReadingRow(meter, units, ts))
                /\ pc' = "alert"
           ELSE /\ pc' = "crashed"
                /\ UNCHANGED <<local, txn>>
    /\ UNCHANGED <<CONSUMER, METER, CONSUMPTION, ALERT, loop, clock, base_df,
                   alert_df, view>>

\* lines 92-96: the conditional alert insert.
\* ok = FALSE: the execute raises, with the reading still pending
SimInsertAlert(ok) ==
    /\ pc = "alert"
    /\ IF IsTheft(local.units)
       THEN IF ok
            THEN /\ txn' = InsertPending(txn, "ALERT",
                              AlertRow(local.meter, local.units, local.ts))
                 /\ pc' = "commit"
            ELSE /\ pc' = "crashed"
                 /\ UNCHANGED txn
       ELSE /\ pc' = "commit"
            /\ UNCHANGED txn
    /\ UNCHANGED <<CONSUMER, METER, CONSUMPTION, ALERT, loop, local, clock,
                   base_df, alert_df, view>>

\* the committed tables after conn.commit() of the pending rows t
\* line 97 moved before the alert insert: the alert is never committed
CommitReadingOnly(committed, t) ==
    [CONSUMPTION |-> committed.CONSUMPTION \o t.CONSUMPTION,
     ALERT |-> committed.ALERT]

CommitAll(committed, t) ==
    [CONSUMPTION |-> committed.CONSUMPTION \o t.CONSUMPTION,
     ALERT |-> committed.ALERT \o t.ALERT]

\* line 97, then back in the handler's loop (lines 115-118, 121-122).
\* ok = FALSE: the commit raises and nothing of the transaction is committed
SimCommit(ok) ==
    /\ pc = "commit"
    /\ IF ok
       THEN LET c == CommitAll([CONSUMPTION |-> CONSUMPTION, ALERT |-> ALERT],
                               txn)
            IN  /\ CONSUMPTION' = c.CONSUMPTION
                /\ ALERT' = c.ALERT
                /\ txn' = NoTxn
                /\ local' = NoLocal
                /\ loop' = [loop EXCEPT !.i = @ + 1]
                /\ pc' = IF loop.i + 1 = loop.n THEN "load" ELSE "insert"
       ELSE /\ pc' = "crashed"
            /\ UNCHANGED <<CONSUMPTION, ALERT, txn, local, loop>>
    /\ UNCHANGED <<CONSUMER, METER, clock, base_df, alert_df, view>>

-----------------------------------------------------------------------------
(* LOAD DATA *)

\* the rows the three-table join yields for one CONSUMPTION row
JoinRow(cs) ==
    LET hit == { <<c, m>> \in CONSUMER \X METER :
                    /\ c.consumer_id = m.consumer_id
                    /\ m.meter_id = cs.meter_id }
    IN  IF hit = {} THEN <<>>
        ELSE LET cm == CHOOSE x \in hit : TRUE
             IN  <<[area |-> cm[1].area, meter_id |-> cm[2].meter_id,
                    units |-> cs.units, reading_date |-> cs.reading_date]>>

RECURSIVE Join(_)
Join(rows) ==
    IF rows = <<>> THEN <<>> ELSE JoinRow(Head(rows)) \o Join(Tail(rows))

\* lines 127-138: both frames are read on the script's connection
LoadData ==
    /\ pc = "load"
    /\ base_df' = Join(ConnConsumption)
    /\ alert_df' = ConnAlert
    /\ pc' = IF Join(ConnConsumption) = <<>> THEN "stopped" ELSE "filters"
    /\ UNCHANGED <<CONSUMER, METER, CONSUMPTION, ALERT, txn, loop, local, clock,
                   view>>

-----------------------------------------------------------------------------
(* The next interaction: a new script run on a new connection.  The rows    *)
(* left pending by a run that raised are rolled back with its connection.   *)

\* the rows a failed run left pending are carried into the next run
RollbackKeep(t) == t

\* closing a connection discards the rows pending on it
Rollback(t) == NoTxn

Rerun ==
    /\ pc \in {"done", "stopped", "crashed"}
    /\ pc' = "start"
    /\ txn' = Rollback(txn)
    /\ loop' = NoLoop
    /\ local' = NoLocal
    /\ base_df' = <<>>
    /\ alert_df' = <<>>
    /\ view' = NoView
    /\ UNCHANGED <<CONSUMER, METER, CONSUMPTION, ALERT, clock>>

-----------------------------------------------------------------------------

(* SIDEBAR FILTERS *)

SeqToSet(s) == {s[i] : i \in DOMAIN s}

\* the options of the two select boxes (lines 147-148)
AreaOptions(df) == {"All"} \cup {r.area : r \in SeqToSet(df)}
MeterOptions(df) == {All} \cup {astype_str(r.meter_id) : r \in SeqToSet(df)}

\* what st.date_input can return for a range input bounded by the data's first
\* and last date: no date, the start alone, or start <= end (lines 153-161)
DateRanges(df) ==
    LET ds == {dt_date(r.reading_date) : r \in SeqToSet(df)}
        lo == CHOOSE d \in ds : \A e \in ds : d <= e
        hi == CHOOSE d \in ds : \A e \in ds : e <= d
    IN  {<<>>} \cup {<<s>> : s \in lo..hi}
               \cup {<<x[1], x[2]>> : x \in {y \in (lo..hi) \X (lo..hi) : y[1] <= y[2]}}

ApplyArea(df, sel_area) ==
    IF sel_area # "All"
    THEN SelectSeq(df, LAMBDA r : r.area = sel_area)
    ELSE df

ApplyMeter(df, sel_meter) ==
    IF sel_meter # All
    THEN SelectSeq(df, LAMBDA r : astype_str(r.meter_id) = sel_meter)
    ELSE df

\* lines 171-176 with < e in place of <= e
ApplyDateExclusive(df, date_range) ==
    IF Len(date_range) = 2
    THEN SelectSeq(df, LAMBDA r : /\ dt_date(r.reading_date) >= date_range[1]
                                  /\ dt_date(r.reading_date) < date_range[2])
    ELSE df

ApplyDate(df, date_range) ==
    IF Len(date_range) = 2
    THEN SelectSeq(df, LAMBDA r : /\ dt_date(r.reading_date) >= date_range[1]
                                  /\ dt_date(r.reading_date) <= date_range[2])
    ELSE df

\* lines 163-176, in the order the script applies them
Filtered(df, sel_area, sel_meter, date_range) ==
    ApplyDate(ApplyMeter(ApplyArea(df, sel_area), sel_meter), date_range)

-----------------------------------------------------------------------------
(* METRICS and CHARTS *)

Max(a, b) == IF a >= b THEN a ELSE b

RECURSIVE SumUnits(_)
SumUnits(rows) ==
    IF rows = <<>> THEN 0 ELSE Head(rows).units + SumUnits(Tail(rows))

\* Python's str order on the area names of the seed rows
AreaOrder == <<"Chennai", "Coimbatore", "Madurai">>
AreaRank(a) == CHOOSE i \in DOMAIN AreaOrder : AreaOrder[i] = a

\* the order of two values of column col: str order for the text columns,
\* time order for the parsed reading_date, date order for the alert dates
ColLess(col, a, b) ==
    CASE col = "area" -> AreaRank(a) < AreaRank(b)
      [] col = "hour" -> StrLess(a, b)
      [] col = "reading_date" -> TsLess(a, b)
      [] col = "alert_date" -> a < b

\* the keys of a groupby on column col, in the order groupby(sort=True) puts them
SortKeys(S, col) ==
    [j \in 1..Cardinality(S) |->
        CHOOSE k \in S : Cardinality({y \in S : ColLess(col, y, k)}) = j - 1]

\* df.groupby(col, as_index=False)["units"].sum(): one row per key present
GroupSum(df, col) ==
    LET keys == SortKeys({r[col] : r \in SeqToSet(df)}, col)
    IN  [j \in 1..Len(keys) |->
            [key |-> keys[j],
             units |-> SumUnits(SelectSeq(df, LAMBDA r : r[col] = keys[j]))]]

\* df.groupby(col, as_index=False).size()
GroupSize(df, col) ==
    LET keys == SortKeys({r[col] : r \in SeqToSet(df)}, col)
    IN  [j \in 1..Len(keys) |->
            [key |-> keys[j],
             size |-> Len(SelectSeq(df, LAMBDA r : r[col] = keys[j]))]]

\* line 184 without the alerts subtracted
NormalUsageTotal(df, alerts) == Len(df)

\* line 184
NormalUsage(df, alerts) == Max(Len(df) - Len(alerts), 0)

\* line 192, with a row for every area whether or not a reading has it
AreaTotalsZeroFilled(df) ==
    [j \in DOMAIN AreaOrder |->
        [area |-> AreaOrder[j],
         units |-> SumUnits(SelectSeq(df, LAMBDA r : r.area = AreaOrder[j]))]]

\* line 192, with each area's last reading in place of the sum
AreaTotalsLast(df) ==
    LET g == GroupSize(df, "area")
    IN  [j \in DOMAIN g |->
            LET rows == SelectSeq(df, LAMBDA r : r.area = g[j].key)
            IN  [area |-> g[j].key, units |-> rows[Len(rows)].units]]

\* line 192
AreaTotals(df) ==
    LET g == GroupSum(df, "area")
    IN  [j \in DOMAIN g |-> [area |-> g[j].key, units |-> g[j].units]]

\* line 201
Trend(df) ==
    LET g == GroupSum(df, "reading_date")
    IN  [j \in DOMAIN g |-> [reading_date |-> g[j].key, units |-> g[j].units]]

\* lines 220-221: the filtered rows with the hour of day as text
Heat(df) ==
    [j \in DOMAIN df |->
        [area |-> df[j].area, meter_id |-> df[j].meter_id,
         units |-> df[j].units, reading_date |-> df[j].reading_date,
         hour |-> astype_str(dt_hour(df[j].reading_date))]]

\* line 234
PeakHour(heat) ==
    LET g == GroupSum(heat, "hour")
    IN  [j \in DOMAIN g |-> [hour |-> g[j].key, units |-> g[j].units]]

\* lines 243-246: the alerts counted per calendar date of alert_date; computed
\* only when there is an alert
TheftTrend(alerts) ==
    IF alerts = <<>> THEN <<>>
    ELSE LET dates == [j \in DOMAIN alerts |->
                          [alert_date |-> dt_date(alerts[j].alert_date)]]
             g == GroupSize(dates, "alert_date")
         IN  [j \in DOMAIN g |-> [alert_date |-> g[j].key, size |-> g[j].size]]

\* lines 145-251: the rest of the pass, for one choice of the sidebar widgets
Render(sel_area, sel_meter, date_range) ==
    /\ pc = "filters"
    /\ LET filtered == Filtered(base_df, sel_area, sel_meter, date_range)
           heat_df == Heat(filtered)
       IN  view' = [computed |-> TRUE,
                    sel_area |-> sel_area,
                    sel_meter |-> sel_meter,
                    date_range |-> date_range,
                    filtered |-> filtered,
                    total |-> Len(filtered),
                    alerts |-> Len(alert_df),
                    normal |-> NormalUsage(filtered, alert_df),
                    area_df |-> AreaTotals(filtered),
                    trend_df |-> Trend(filtered),
                    heat_df |-> heat_df,
                    hour_df |-> PeakHour(heat_df),
                    tdf |-> TheftTrend(alert_df)]
    /\ pc' = "done"
    /\ UNCHANGED <<CONSUMER, METER, CONSUMPTION, ALERT, txn, loop, local, clock,
                   base_df, alert_df>>

-----------------------------------------------------------------------------

\* the widgets offer their options once base_df is loaded and is not empty
RenderPass ==
    /\ pc = "filters"
    /\ \E sel_area \in AreaOptions(base_df), sel_meter \in MeterOptions(base_df),
          date_range \in DateRanges(base_df) :
          Render(sel_area, sel_meter, date_range)

InitRun ==
    /\ CONSUMPTION = <<>>
    /\ ALERT = <<>>
    /\ txn = NoTxn
    /\ pc = "start"
    /\ loop = NoLoop
    /\ local = NoLocal
    /\ clock = 0
    /\ base_df = <<>>
    /\ alert_df = <<>>
    /\ view = NoView

\* the database file does not exist yet
Init ==
    /\ CONSUMER = {}
    /\ METER = {}
    /\ InitRun

\* the database file as some provisioning left it: with or without consumers,
\* with none, one or all of the meters, and no readings yet
InitAnyDb ==
    /\ CONSUMER \in {{}, SeedConsumers}
    /\ METER \in {{}, {m \in SeedMeters : m.meter_id = 101}, SeedMeters}
    /\ InitRun

Next ==
    \/ Startup
    \/ ClickSimulateBatch
    \/ ClickAddOne
    \/ NoClick
    \/ Tick
    \/ \E meter \in MeterChoices, units \in UnitsChoices, ok \in BOOLEAN :
          SimInsertReading(meter, units, ok)
    \/ \E ok \in BOOLEAN : SimInsertAlert(ok)
    \/ \E ok \in BOOLEAN : SimCommit(ok)
    \/ LoadData
    \/ RenderPass
    \/ Rerun

Spec == Init /\ [][Next]_vars

SpecAnyDb == InitAnyDb /\ [][Next]_vars

-----------------------------------------------------------------------------
(* Properties *)

\* int(text) of a digit string
RECURSIVE ParseInt(_)
ParseInt(str) ==
    IF str = <<>> THEN 0
    ELSE 10 * ParseInt(SubSeq(str, 1, Len(str) - 1)) + (CharCode(str[Len(str)]) - 1)

IsPrefix(a, b) == Len(a) <= Len(b) /\ SubSeq(b, 1, Len(a)) = a

\* the alerts whose meter, units and time are those of reading r
AlertsLike(r, alerts) ==
    {j \in DOMAIN alerts : /\ alerts[j].meter_id = r.meter_id
                           /\ alerts[j].units = r.units
                           /\ alerts[j].alert_date = r.reading_date
                           /\ alerts[j].alert_type = "POSSIBLE THEFT"}

ReadingsLike(r, readings) ==
    {i \in DOMAIN readings : /\ readings[i].meter_id = r.meter_id
                             /\ readings[i].units = r.units
                             /\ readings[i].reading_date = r.reading_date}

AlertHasReading ==
    \A j \in DOMAIN ALERT :
        \E i \in DOMAIN CONSUMPTION : j \in AlertsLike(CONSUMPTION[i], ALERT)

\* C1, as stated: every stored reading above THRESHOLD has exactly one alert
\* with its meter, units and timestamp, a reading at or below THRESHOLD has
\* none, and every alert has such a reading.
C1_ExactlyOneAlert ==
    /\ \A i \in DOMAIN CONSUMPTION :
          LET r == CONSUMPTION[i]
          IN  IF r.units > THRESHOLD
              THEN Cardinality(AlertsLike(r, ALERT)) = 1
              ELSE AlertsLike(r, ALERT) = {}
    /\ AlertHasReading

\* C1, amended: a stored reading above THRESHOLD has as many alerts with its
\* meter, units and timestamp as there are stored readings with them (one
\* alert per reading; two readings of one second can be equal), a reading at
\* or below THRESHOLD has none, and every alert has such a reading.
C1_OneAlertPerReading ==
    /\ \A i \in DOMAIN CONSUMPTION :
          LET r == CONSUMPTION[i]
          IN  IF r.units > THRESHOLD
              THEN Cardinality(AlertsLike(r, ALERT)) =
                   Cardinality(ReadingsLike(r, CONSUMPTION))
              ELSE AlertsLike(r, ALERT) = {}
    /\ AlertHasReading

\* C1 witness: two equal readings above THRESHOLD are stored, next to their two alerts
C1_Witness ==
    /\ Len(ALERT) >= 2
    /\ \E i \in DOMAIN CONSUMPTION :
          /\ CONSUMPTION[i].units > THRESHOLD
          /\ Cardinality(ReadingsLike(CONSUMPTION[i], CONSUMPTION)) >= 2

\* the k-th reading above THRESHOLD and the k-th alert are the same event
AlertsMatch(readings, alerts) ==
    LET due == SelectSeq(readings, LAMBDA r : r.units > THRESHOLD)
    IN  /\ Len(due) = Len(alerts)
        /\ \A k \in DOMAIN due : /\ alerts[k].meter_id = due[k].meter_id
                                 /\ alerts[k].units = due[k].units
                                 /\ alerts[k].alert_date = due[k].reading_date

\* C2: in every state, among them those in which an insert or the commit of
\* simulate() has failed, the committed tables (what a reader of the file
\* sees) and the frames the script itself has loaded show a reading above
\* THRESHOLD if and only if they show its alert.
C2_ReadingAndAlertTogether ==
    /\ AlertsMatch(CONSUMPTION, ALERT)
    /\ pc \in {"filters", "done", "stopped"} => AlertsMatch(base_df, alert_df)

\* C2 witness: the alert insert has failed with the reading of that call inserted
C2_Witness ==
    /\ pc = "crashed"
    /\ local.set
    /\ local.units > THRESHOLD
    /\ Len(txn.CONSUMPTION) = 1
    /\ txn.ALERT = <<>>
    /\ CONSUMPTION # <<>>

\* C3: while table METER is empty, no step writes a reading or an alert,
\* pending or committed.
C3_NoMetersNoWrite ==
    [][METER = {} => /\ CONSUMPTION' = CONSUMPTION
                     /\ ALERT' = ALERT
                     /\ txn' = NoTxn]_vars

\* C4: committed rows stay committed; a step that fails commits nothing; a
\* call of simulate() starts with nothing pending from a failed call; and
\* every call that returns has committed its own reading with the alert due,
\* whatever happens to the calls of the batch after it.
C4_EachCallCommitsAlone ==
    [][/\ IsPrefix(CONSUMPTION, CONSUMPTION')
       /\ IsPrefix(ALERT, ALERT')
       /\ pc' = "crashed" => (CONSUMPTION' = CONSUMPTION /\ ALERT' = ALERT)
       /\ pc' = "insert" => txn' = NoTxn
       /\ loop'.i = loop.i + 1 =>
             /\ Len(CONSUMPTION') = Len(CONSUMPTION) + 1
             /\ AlertsMatch(CONSUMPTION', ALERT')]_vars

\* C4 witness: a later call of the batch has failed with its reading inserted, and the
\* readings of the calls before it are committed
C4_Witness ==
    /\ pc = "crashed"
    /\ loop.n = BatchBound
    /\ loop.i >= 1
    /\ Len(CONSUMPTION) >= loop.i
    /\ txn.CONSUMPTION # <<>>

\* the filter's predicate as C5 states it
Keeps(r, sel_area, sel_meter, date_range) ==
    /\ sel_area = "All" \/ r.area = sel_area
    /\ sel_meter = All \/ r.meter_id = ParseInt(sel_meter)
    /\ Len(date_range) # 2 \/ /\ date_range[1] <= r.reading_date.date
                              /\ r.reading_date.date <= date_range[2]

\* C5: the filtered frame holds exactly the loaded rows that satisfy the
\* three predicates, and applying the three steps in any of the six orders
\* gives that frame.
C5_FilterIsConjunction ==
    pc = "done" =>
        LET a == view.sel_area
            m == view.sel_meter
            d == view.date_range
        IN  /\ view.filtered = SelectSeq(base_df, LAMBDA r : Keeps(r, a, m, d))
            /\ view.filtered = ApplyDate(ApplyArea(ApplyMeter(base_df, m), a), d)
            /\ view.filtered = ApplyArea(ApplyDate(ApplyMeter(base_df, m), d), a)
            /\ view.filtered = ApplyMeter(ApplyDate(ApplyArea(base_df, a), d), m)
            /\ view.filtered = ApplyArea(ApplyMeter(ApplyDate(base_df, d), m), a)
            /\ view.filtered = ApplyMeter(ApplyArea(ApplyDate(base_df, d), a), m)

\* C5 witness: an area, a meter and a date range are chosen, and keep some loaded rows
\* and drop others
C5_Witness ==
    /\ pc = "done"
    /\ view.sel_area # "All"
    /\ view.sel_meter # All
    /\ Len(view.date_range) = 2
    /\ view.filtered # <<>>
    /\ Len(view.filtered) < Len(base_df)

\* C6: the per-area totals add up to the units of the filtered rows.
C6_AreaTotalsAddUp ==
    pc = "done" => SumUnits(view.area_df) = SumUnits(view.filtered)

\* C6 witness: two filtered readings of one area are summed into one row
C6_Witness ==
    /\ pc = "done"
    /\ Len(view.filtered) = 2
    /\ Len(view.area_df) = 1

FourViewsEmpty ==
    /\ view.area_df = <<>>
    /\ view.trend_df = <<>>
    /\ view.heat_df = <<>>
    /\ view.hour_df = <<>>

\* C7, as stated: when the filter matches no reading, all five views are empty.
C7_AllViewsEmpty ==
    (pc = "done" /\ view.filtered = <<>>) => (FourViewsEmpty /\ view.tdf = <<>>)

\* C7, amended: when the filter matches no reading, the area totals, the
\* trend, the heatmap frame and the peak-hour view are empty; the alert trend
\* has one row per date of a stored alert whatever the filter; and when the
\* join yields no row the pass stops before it computes any view.
C7_ReadingViewsEmpty ==
    /\ (pc = "done" /\ view.filtered = <<>>) =>
          /\ FourViewsEmpty
          /\ Len(view.tdf) =
                Cardinality({ALERT[j].alert_date.date : j \in DOMAIN ALERT})
    /\ pc = "stopped" => (Join(ConnConsumption) = <<>> /\ view = NoView)

\* C7 witness: the filter matches none of the loaded readings while alerts are stored
C7_Witness ==
    /\ pc = "done"
    /\ base_df # <<>>
    /\ view.filtered = <<>>
    /\ view.tdf # <<>>

\* C8: every stored reading's meter_id is that of a row of METER.
C8_ReadingsReferenceMeters ==
    \A i \in DOMAIN CONSUMPTION :
        \E m \in METER : m.meter_id = CONSUMPTION[i].meter_id

\* C9: the peak-hour view has one row per hour of day of the filtered rows,
\* in ascending numeric order of the hour, each with the units of that hour.
C9_PeakHourNumericOrder ==
    pc = "done" =>
        LET h == view.hour_df
        IN  /\ \A j \in 1..(Len(h) - 1) :
                  ParseInt(h[j].hour) < ParseInt(h[j + 1].hour)
            /\ {ParseInt(h[j].hour) : j \in DOMAIN h} =
               {view.filtered[i].reading_date.hour : i \in DOMAIN view.filtered}
            /\ \A j \in DOMAIN h :
                  h[j].units =
                  SumUnits(SelectSeq(view.filtered, LAMBDA r :
                              r.reading_date.hour = ParseInt(h[j].hour)))

\* C10: there are never more alerts than readings, and with the filters at
\* All / All / first to last date the Normal Usage metric is the number of
\* stored readings at or below THRESHOLD.
C10_NormalUsage ==
    /\ Len(ALERT) <= Len(CONSUMPTION)
    /\ (/\ pc = "done"
        /\ view.sel_area = "All"
        /\ view.sel_meter = All
        /\ view.date_range \in
              {<<lo, hi>> : lo \in {d \in {r.reading_date.date : r \in SeqToSet(base_df)} :
                                      \A e \in SeqToSet(base_df) : d <= e.reading_date.date},
                            hi \in {d \in {r.reading_date.date : r \in SeqToSet(base_df)} :
                                      \A e \in SeqToSet(base_df) : e.reading_date.date <= d}})
       => view.normal = Cardinality({i \in DOMAIN CONSUMPTION :
                                        CONSUMPTION[i].units <= THRESHOLD})

\* C10 witness: the default filters over a reading above THRESHOLD and one not above it
C10_Witness ==
    /\ pc = "done"
    /\ view.sel_area = "All"
    /\ view.sel_meter = All
    /\ Len(view.date_range) = 2
    /\ Len(view.filtered) = Len(CONSUMPTION)
    /\ view.alerts = 1
    /\ view.normal = 1

====
